---- MODULE Spec2Model ----
(***************************************************************************)
(* A model of the expense tracker of src/test02.py: the Expense record,    *)
(* its JSON (de)serialization, and the ExpenseTracker store with its       *)
(* backing file.                                                           *)
(*                                                                         *)
(* Representation.                                                         *)
(*   - text the code transforms (description, ISO dates, JSON numbers) is  *)
(*     a sequence of one-character strings; text it only carries around    *)
(*     (category) is a TLA+ string;                                        *)
(*   - a datetime.date is a record [year, month, day];                     *)
(*   - an amount is an integer number of thousandths of a currency unit    *)
(*     (the code's float, kept to three decimals), so that rounding to     *)
(*     two decimals is a rounding to a multiple of ten;                    *)
(*   - an id f"{timestamp}_{hash % 10000}" is the pair of its two numbers  *)
(*     (the format is injective on pairs), and ids found in a backing      *)
(*     file written by an earlier process are pairs as well;               *)
(*   - a Python exception is a record [exc |-> name];                      *)
(*   - category names are written in ASCII: "food" is the first of the     *)
(*     nine built-in categories of __init__.                               *)
(***************************************************************************)
EXTENDS Integers, Sequences, FiniteSets, TLC

(***************************************************************************)
(* Bounds of the model.                                                    *)
(***************************************************************************)
MaxLen == 2
MaxClock == 1
MaxSaveFailures == 1

(***************************************************************************)
(* Program constants.                                                      *)
(***************************************************************************)
HashModulus == 10000

(***************************************************************************)
(* Inputs.                                                                 *)
(***************************************************************************)
SP == " "
May31 == [year |-> 2024, month |-> 5, day |-> 31]
June15 == [year |-> 2024, month |-> 6, day |-> 15]
\* date=None
NoDate == [year |-> 0, month |-> 0, day |-> 0]
AddCall(amount, category, description, date) ==
    [amount |-> amount, category |-> category, description |-> description, date |-> date]
\* the calls of add_expense the model makes: "food" is one of the built-in
\* categories and "toys" is not
AddCalls ==
    {AddCall(50, "food", <<"a">>, May31),
     AddCall(123, "toys", <<SP, "a", SP>>, June15),
     AddCall(50, "toys", <<"a">>, NoDate),
     AddCall(0, "food", <<"a">>, June15),
     AddCall(-10, "toys", <<"a">>, May31),
     AddCall(50, "food", <<>>, June15),
     AddCall(120, "toys", <<SP>>, NoDate)}
NoId == <<>>

(***************************************************************************)
(* str.strip(): leading and trailing whitespace removed.                   *)
(***************************************************************************)
RECURSIVE LStrip(_)
LStrip(s) == IF s # <<>> /\ Head(s) = SP THEN LStrip(Tail(s)) ELSE s

RECURSIVE RStrip(_)
RStrip(s) ==
    IF s # <<>> /\ s[Len(s)] = SP THEN RStrip(SubSeq(s, 1, Len(s) - 1)) ELSE s

Strip(s) == RStrip(LStrip(s))

(***************************************************************************)
(* Python exceptions as values.                                            *)
(***************************************************************************)
Raise(name) == [exc |-> name]
IsExc(x) == "exc" \in DOMAIN x

(***************************************************************************)
(* Decimal digits, as json.dump and date.isoformat write them.             *)
(***************************************************************************)
DigitChars == <<"0", "1", "2", "3", "4", "5", "6", "7", "8", "9">>
IsDigit(c) == \E i \in 1..10 : DigitChars[i] = c
DigitVal(c) == (CHOOSE i \in 1..10 : DigitChars[i] = c) - 1

\* n as exactly w decimal digits (the %0wd of isoformat), n >= 0
RECURSIVE Pad(_, _)
Pad(n, w) == IF w = 0 THEN <<>> ELSE Append(Pad(n \div 10, w - 1), DigitChars[(n % 10) + 1])

\* n >= 0 in decimal without leading zeros
RECURSIVE Dec(_)
Dec(n) == IF n < 10 THEN <<DigitChars[n + 1]>> ELSE Append(Dec(n \div 10), DigitChars[(n % 10) + 1])

\* the value of a string of decimal digits
RECURSIVE DecVal(_)
DecVal(s) == IF s = <<>> THEN 0 ELSE 10 * DecVal(SubSeq(s, 1, Len(s) - 1)) + DigitVal(s[Len(s)])

AllDigits(s) == \A i \in 1..Len(s) : IsDigit(s[i])

\* json.dump of a number, and json.load of it
JsonNumber(n) == IF n < 0 THEN <<"-">> \o Dec(-n) ELSE Dec(n)
ParseNumber(s) == IF s # <<>> /\ Head(s) = "-" THEN -DecVal(Tail(s)) ELSE DecVal(s)

(***************************************************************************)
(* datetime.date: isoformat() and fromisoformat().                         *)
(***************************************************************************)
IsLeap(y) == (y % 4 = 0 /\ y % 100 # 0) \/ y % 400 = 0
DaysInMonth(y, m) ==
    IF m = 2 THEN (IF IsLeap(y) THEN 29 ELSE 28)
    ELSE IF m \in {4, 6, 9, 11} THEN 30 ELSE 31

\* isoformat, had it written the numbers without zero padding
IsoFormatUnpadded(d) == Dec(d.year) \o <<"-">> \o Dec(d.month) \o <<"-">> \o Dec(d.day)

IsoFormat(d) == Pad(d.year, 4) \o <<"-">> \o Pad(d.month, 2) \o <<"-">> \o Pad(d.day, 2)

FromIsoFormat(s) ==
    IF /\ Len(s) = 10
       /\ s[5] = "-"
       /\ s[8] = "-"
       /\ AllDigits(SubSeq(s, 1, 4) \o SubSeq(s, 6, 7) \o SubSeq(s, 9, 10))
    THEN LET y == DecVal(SubSeq(s, 1, 4))
             m == DecVal(SubSeq(s, 6, 7))
             d == DecVal(SubSeq(s, 9, 10))
         IN  IF y >= 1 /\ m \in 1..12 /\ d \in 1..DaysInMonth(y, m)
             THEN [year |-> y, month |-> m, day |-> d]
             ELSE Raise("ValueError")
    ELSE Raise("ValueError")

(***************************************************************************)
(* State.                                                                  *)
(*   expenses    ExpenseTracker.expenses, the in-memory list               *)
(*   categories  ExpenseTracker.categories, the known-category set         *)
(*   file        the backing file at ExpenseTracker.data_file              *)
(*   now         int(datetime.datetime.now().timestamp()), as an offset    *)
(*   hashOf      the builtin hash() on str of the running process (it is   *)
(*               salted per process, so it is some function, fixed for     *)
(*               the life of the process)                                  *)
(*   failures    how many writes of the backing file by this store failed  *)
(*   last        the last call made on the store: its arguments, what it   *)
(*               returned or raised, and the store, the known categories   *)
(*               and the file it started in                                *)
(*   peer        a second ExpenseTracker of the same process on the same   *)
(*               backing file, when there is one: its expenses, categories *)
(*               and failed writes. The calls act on the store held in     *)
(*               expenses, categories and failures.                        *)
(***************************************************************************)
VARIABLES expenses, categories, file, now, hashOf, failures, last, peer

vars == <<expenses, categories, file, now, hashOf, failures, last, peer>>

(***************************************************************************)
(* class Expense.                                                          *)
(***************************************************************************)
\* the strings hash() is defined on: any description, stripped or not
HashedStrings ==
    {c.description : c \in AddCalls} \cup {Strip(c.description) : c \in AddCalls}
\* what hash() returns in this process
HashValues == {-9993}

\* hash(self.description) % 10000 (Python's % is never negative here)
HashBucket(description) == hashOf[description] % HashModulus

\* Expense(amount, category, description, date, id) at time ts:
\* the dataclass __init__ followed by __post_init__
NewExpense(amount, category, description, date, id, ts) ==
    [amount      |-> amount,
     category    |-> category,
     description |-> description,
     date        |-> date,
     id          |-> IF id = NoId THEN <<ts, HashBucket(description)>> ELSE id]

\* Expense.to_dict
ToDict(e) == [e EXCEPT !.date = IsoFormat(e.date)]

\* Expense.from_dict at time ts
FromDict(data, ts) ==
    LET d == FromIsoFormat(data.date)
    IN  IF IsExc(d) THEN d
        ELSE NewExpense(data.amount, data.category, data.description, d, data.id, ts)

(***************************************************************************)
(* The backing file. Its content is absent, unreadable (open() raises),    *)
(* malformed (not JSON) or a JSON array of objects; an object holds its    *)
(* number as the digits json.dump wrote.                                   *)
(***************************************************************************)
Absent == [kind |-> "absent", items |-> <<>>]
Unreadable == [kind |-> "unreadable", items |-> <<>>]
Malformed == [kind |-> "malformed", items |-> <<>>]
JsonArray(items) == [kind |-> "array", items |-> items]

\* json.dump / json.load of one dict of to_dict (strings are written
\* unescaped, ensure_ascii=False, and read back as they are)
JsonDumpObject(d) == [d EXCEPT !.amount = JsonNumber(d.amount)]
JsonLoadObject(o) == [o EXCEPT !.amount = ParseNumber(o.amount)]

\* the list self.expenses as _save_expenses writes it
Serialize(exps) == JsonArray([i \in 1..Len(exps) |-> JsonDumpObject(ToDict(exps[i]))])

\* _load_expenses, had it kept the elements that deserialize
LoadExpensesPartial(f, ts) ==
    IF f.kind # "array" THEN <<>>
    ELSE LET loaded == [i \in 1..Len(f.items) |-> FromDict(JsonLoadObject(f.items[i]), ts)]
         IN  SelectSeq(loaded, LAMBDA x : ~IsExc(x))

\* ExpenseTracker._load_expenses at time ts: the value of self.expenses after it
LoadExpenses(f, ts) ==
    IF f.kind = "absent" THEN <<>>
    ELSE IF f.kind = "unreadable" THEN <<>>
    ELSE IF f.kind = "malformed" THEN <<>>
    ELSE LET loaded == [i \in 1..Len(f.items) |-> FromDict(JsonLoadObject(f.items[i]), ts)]
         IN  IF \E i \in 1..Len(loaded) : IsExc(loaded[i]) THEN <<>> ELSE loaded

\* ExpenseTracker._save_expenses: the file after it. The write either
\* succeeds, or open() raises and the file is as it was, or the dump
\* raises after open(..., 'w') truncated the file; the exception is logged.
SaveOutcomes == {"ok", "open_failed", "write_failed"}
SaveExpenses(exps, f, outcome) ==
    IF outcome = "ok" THEN Serialize(exps)
    ELSE IF outcome = "open_failed" THEN f
    ELSE Malformed

(***************************************************************************)
(* class ExpenseTracker.                                                   *)
(***************************************************************************)
\* the nine categories of __init__ ("food" stands for the first of them)
DefaultCategories ==
    {"food", "transport", "fun", "shopping", "medical",
     "education", "rent", "utilities", "other"}

\* datetime.date.today(): the modelled seconds are all of one day
Today(ts) == June15

Call(op, args, ret, save) ==
    [op |-> op, args |-> args, ret |-> ret, save |-> save,
     pre |-> expenses, preFile |-> file, preCategories |-> categories]

\* the write outcomes the model still allows: failures are bounded
Outcomes == IF failures < MaxSaveFailures THEN SaveOutcomes ELSE {"ok"}
Failed(outcome) == IF outcome = "ok" THEN 0 ELSE 1

\* ExpenseTracker.__init__ on the backing file: a new store replaces the old
Construct ==
    /\ expenses' = LoadExpenses(file, now)
    /\ categories' = DefaultCategories
    /\ failures' = 0
    /\ last' = Call("construct", <<>>, "None", "none")
    /\ UNCHANGED <<file, now, hashOf, peer>>

\* add_expense raising ValueError: nothing but the log is touched
AddRejected(amount, category, description, date) ==
    /\ last' = Call("add", <<amount, category, description, date>>, "ValueError", "none")
    /\ UNCHANGED <<expenses, categories, file, now, hashOf, failures, peer>>

\* add_expense past its validation, had it kept the description as passed
AddAcceptedUnstripped(amount, category, description, date, outcome) ==
    LET expense_date == IF date = NoDate THEN Today(now) ELSE date
        expense == NewExpense(amount, category, description, expense_date, NoId, now)
    IN  /\ Len(expenses) < MaxLen
        /\ categories' = categories \cup {category}
        /\ expenses' = Append(expenses, expense)
        /\ file' = SaveExpenses(expenses', file, outcome)
        /\ failures' = failures + Failed(outcome)
        /\ last' = Call("add", <<amount, category, description, date>>, "True", outcome)
        /\ UNCHANGED <<now, hashOf, peer>>

\* add_expense past its validation, had it saved before appending
AddAcceptedSavesFirst(amount, category, description, date, outcome) ==
    LET expense_date == IF date = NoDate THEN Today(now) ELSE date
        expense == NewExpense(amount, category, Strip(description), expense_date, NoId, now)
    IN  /\ Len(expenses) < MaxLen
        /\ categories' = categories \cup {category}
        /\ expenses' = Append(expenses, expense)
        /\ file' = SaveExpenses(expenses, file, outcome)
        /\ failures' = failures + Failed(outcome)
        /\ last' = Call("add", <<amount, category, description, date>>, "True", outcome)
        /\ UNCHANGED <<now, hashOf, peer>>

\* add_expense past its validation, had it undone the append when the save fails
AddAcceptedRollsBack(amount, category, description, date, outcome) ==
    LET expense_date == IF date = NoDate THEN Today(now) ELSE date
        expense == NewExpense(amount, category, Strip(description), expense_date, NoId, now)
    IN  /\ Len(expenses) < MaxLen
        /\ categories' = categories \cup {category}
        /\ expenses' = IF outcome = "ok" THEN Append(expenses, expense) ELSE expenses
        /\ file' = SaveExpenses(Append(expenses, expense), file, outcome)
        /\ failures' = failures + Failed(outcome)
        /\ last' = Call("add", <<amount, category, description, date>>, "True", outcome)
        /\ UNCHANGED <<now, hashOf, peer>>

\* add_expense past its validation, had it read the backing file again
\* before appending
AddAcceptedRereads(amount, category, description, date, outcome) ==
    LET expense_date == IF date = NoDate THEN Today(now) ELSE date
        expense == NewExpense(amount, category, Strip(description), expense_date, NoId, now)
    IN  /\ Len(expenses) < MaxLen
        /\ categories' = categories \cup {category}
        /\ expenses' = Append(LoadExpenses(file, now), expense)
        /\ file' = SaveExpenses(expenses', file, outcome)
        /\ failures' = failures + Failed(outcome)
        /\ last' = Call("add", <<amount, category, description, date>>, "True", outcome)
        /\ UNCHANGED <<now, hashOf, peer>>

\* add_expense past its validation
AddAccepted(amount, category, description, date, outcome) ==
    LET expense_date == IF date = NoDate THEN Today(now) ELSE date
        expense == NewExpense(amount, category, Strip(description), expense_date, NoId, now)
    IN  /\ Len(expenses) < MaxLen
        /\ categories' = categories \cup {category}
        /\ expenses' = Append(expenses, expense)
        /\ file' = SaveExpenses(expenses', file, outcome)
        /\ failures' = failures + Failed(outcome)
        /\ last' = Call("add", <<amount, category, description, date>>, "True", outcome)
        /\ UNCHANGED <<now, hashOf, peer>>

\* add_expense, had it tested amount < 0
AddExpenseZeroAccepted(amount, category, description, date, outcome) ==
    IF amount < 0 THEN
        outcome = "ok" /\ AddRejected(amount, category, description, date)
    ELSE IF Strip(description) = <<>> THEN
        outcome = "ok" /\ AddRejected(amount, category, description, date)
    ELSE AddAccepted(amount, category, description, date, outcome)

\* ExpenseTracker.add_expense. Its last branch, except Exception: return
\* False, is not taken: with a number, two strings and a date or None as
\* arguments nothing but the two ValueErrors is raised inside the try
\* (_save_expenses catches its own exceptions).
AddExpense(amount, category, description, date, outcome) ==
    IF amount <= 0 THEN
        outcome = "ok" /\ AddRejected(amount, category, description, date)
    ELSE IF Strip(description) = <<>> THEN
        outcome = "ok" /\ AddRejected(amount, category, description, date)
    ELSE AddAccepted(amount, category, description, date, outcome)

\* remove_expense, had it saved whether or not a record went
RemoveExpenseAlwaysSaves(expense_id, outcome) ==
    LET original_count == Len(expenses)
        kept == SelectSeq(expenses, LAMBDA exp : exp.id # expense_id)
    IN  /\ expenses' = kept
        /\ file' = SaveExpenses(kept, file, outcome)
        /\ failures' = failures + Failed(outcome)
        /\ IF Len(kept) < original_count
           THEN last' = Call("remove", <<expense_id>>, "True", outcome)
           ELSE last' = Call("remove", <<expense_id>>, "False", "none")
        /\ UNCHANGED <<categories, now, hashOf, peer>>

\* ExpenseTracker.remove_expense
RemoveExpense(expense_id, outcome) ==
    LET original_count == Len(expenses)
        kept == SelectSeq(expenses, LAMBDA exp : exp.id # expense_id)
    IN  /\ expenses' = kept
        /\ IF Len(kept) < original_count
           THEN /\ file' = SaveExpenses(kept, file, outcome)
                /\ failures' = failures + Failed(outcome)
                /\ last' = Call("remove", <<expense_id>>, "True", outcome)
           ELSE /\ outcome = "ok"
                /\ last' = Call("remove", <<expense_id>>, "False", "none")
                /\ UNCHANGED <<file, failures>>
        /\ UNCHANGED <<categories, now, hashOf, peer>>

\* a second passes
Tick ==
    /\ now < MaxClock
    /\ now' = now + 1
    /\ UNCHANGED <<expenses, categories, file, hashOf, failures, last, peer>>

(***************************************************************************)
(* The queries of ExpenseTracker. A Python dict is a function on its keys. *)
(***************************************************************************)
EmptyDict == [k \in {} |-> 0]

\* datetime.date comparison: by year, then month, then day
DateLE(a, b) ==
    \/ a.year < b.year
    \/ a.year = b.year /\ a.month < b.month
    \/ a.year = b.year /\ a.month = b.month /\ a.day <= b.day

\* sum(exp.amount for exp in exps)
RECURSIVE SumAmounts(_)
SumAmounts(exps) ==
    IF exps = <<>> THEN 0 ELSE SumAmounts(SubSeq(exps, 1, Len(exps) - 1)) + exps[Len(exps)].amount

\* round(num / den, 2) for den > 0, in thousandths: the nearest multiple of
\* ten, the even one of two equally near
Round2(num, den) ==
    LET q == num \div (10 * den)
        r == num - q * 10 * den
    IN  IF 2 * r < 10 * den THEN 10 * q
        ELSE IF 2 * r > 10 * den THEN 10 * (q + 1)
        ELSE IF q % 2 = 0 THEN 10 * q ELSE 10 * (q + 1)

\* get_expenses_by_category
GetExpensesByCategory(exps, category) ==
    SelectSeq(exps, LAMBDA exp : exp.category = category)

\* get_expenses_by_date_range, had it left the end date out
GetExpensesByDateRangeOpenEnd(exps, start_date, end_date) ==
    SelectSeq(exps, LAMBDA exp :
        DateLE(start_date, exp.date) /\ DateLE(exp.date, end_date) /\ exp.date # end_date)

\* get_expenses_by_date_range
GetExpensesByDateRange(exps, start_date, end_date) ==
    SelectSeq(exps, LAMBDA exp : DateLE(start_date, exp.date) /\ DateLE(exp.date, end_date))

\* the loop of calculate_total_by_category, over the records of exps in order
RECURSIVE CategoryLoop(_, _)
CategoryLoop(exps, totals) ==
    IF exps = <<>> THEN totals
    ELSE LET expense == Head(exps)
         IN  CategoryLoop(Tail(exps),
                 IF expense.category \in DOMAIN totals
                 THEN [totals EXCEPT ![expense.category] = @ + expense.amount]
                 ELSE totals @@ (expense.category :> expense.amount))

\* calculate_total_by_category, had it started from the known categories at 0
CalculateTotalByCategoryKnown(exps) ==
    CategoryLoop(exps, [c \in categories |-> 0])

\* calculate_total_by_category
CalculateTotalByCategory(exps) == CategoryLoop(exps, EmptyDict)

\* calculate_monthly_summary, had it tested the month alone
CalculateMonthlySummaryAnyYear(exps, year, month) ==
    LET monthly_expenses == SelectSeq(exps, LAMBDA exp : exp.date.month = month)
    IN  IF monthly_expenses = <<>>
        THEN [total_amount |-> 0, expense_count |-> 0,
              average_amount |-> 0, categories |-> EmptyDict]
        ELSE LET total_amount == SumAmounts(monthly_expenses)
                 expense_count == Len(monthly_expenses)
             IN  [total_amount   |-> Round2(total_amount, 1),
                  expense_count  |-> expense_count,
                  average_amount |-> Round2(total_amount, expense_count),
                  categories     |-> CategoryLoop(monthly_expenses, EmptyDict)]

\* calculate_monthly_summary
CalculateMonthlySummary(exps, year, month) ==
    LET monthly_expenses ==
            SelectSeq(exps, LAMBDA exp : exp.date.year = year /\ exp.date.month = month)
    IN  IF monthly_expenses = <<>>
        THEN [total_amount |-> 0, expense_count |-> 0,
              average_amount |-> 0, categories |-> EmptyDict]
        ELSE LET total_amount == SumAmounts(monthly_expenses)
                 expense_count == Len(monthly_expenses)
             IN  [total_amount   |-> Round2(total_amount, 1),
                  expense_count  |-> expense_count,
                  average_amount |-> Round2(total_amount, expense_count),
                  categories     |-> CategoryLoop(monthly_expenses, EmptyDict)]

\* a query, had get_expenses_by_category registered its category as
\* add_expense does
QueryRegisters(op, args, ret) ==
    /\ last' = Call(op, args, ret, "none")
    /\ categories' = categories \cup (IF op = "by_category" THEN {args[1]} ELSE {})
    /\ UNCHANGED <<expenses, file, now, hashOf, failures, peer>>

\* a call of one of the four queries: it returns ret and assigns nothing
Query(op, args, ret) ==
    /\ last' = Call(op, args, ret, "none")
    /\ UNCHANGED <<expenses, categories, file, now, hashOf, failures, peer>>

\* the arguments the queries are called with
June1 == [year |-> 2024, month |-> 6, day |-> 1]
QueryCategories == {"food", "toys", "rent"}
QueryDates == {May31, June1, June15}
QueryMonths == {<<2024, 5>>, <<2024, 6>>, <<2023, 6>>, <<2024, 12>>}

ByCategory ==
    \E category \in QueryCategories :
        Query("by_category", <<category>>, GetExpensesByCategory(expenses, category))
ByDateRange ==
    \E start_date \in QueryDates, end_date \in QueryDates :
        Query("by_date_range", <<start_date, end_date>>,
              GetExpensesByDateRange(expenses, start_date, end_date))
TotalByCategory ==
    Query("total_by_category", <<>>, CalculateTotalByCategory(expenses))
MonthlySummary ==
    \E ym \in QueryMonths :
        Query("monthly_summary", ym, CalculateMonthlySummary(expenses, ym[1], ym[2]))

(***************************************************************************)
(* The backing files a store may be constructed on: none, an unreadable    *)
(* one, one that is not JSON, and arrays written by an earlier process or  *)
(* edited by hand, which may hold a record with a non-positive amount and  *)
(* a blank description, or one whose date is no ISO date.                  *)
(***************************************************************************)
OldId == <<-1, 7>>
OtherOldId == <<-1, 8>>
FileItem(amount, description, date, id) ==
    [amount |-> JsonNumber(amount), category |-> "food",
     description |-> description, date |-> date, id |-> id]
IsoJune15 == <<"2", "0", "2", "4", "-", "0", "6", "-", "1", "5">>
Month13 == <<"2", "0", "2", "4", "-", "1", "3", "-", "0", "1">>
GoodItem == FileItem(50, <<"a">>, IsoJune15, OldId)
InitFiles ==
    {Absent, Unreadable, Malformed,
     JsonArray(<<GoodItem, FileItem(-10, <<SP>>, IsoJune15, OtherOldId)>>),
     JsonArray(<<GoodItem, FileItem(120, <<"b">>, Month13, OtherOldId)>>)}

\* the ids remove_expense is called with: those in the store, one of an
\* earlier process, and one that no record ever carries
NeverId == <<-2, 0>>
RemoveIds == {expenses[i].id : i \in 1..Len(expenses)} \cup {OldId, NeverId}

\* no second store
NoPeer == [expenses |-> <<>>, categories |-> {}, failures |-> 0]

Init ==
    /\ peer = NoPeer
    /\ file \in InitFiles
    /\ now = 0
    /\ hashOf \in [HashedStrings -> HashValues]
    /\ expenses = LoadExpenses(file, now)
    /\ categories = DefaultCategories
    /\ failures = 0
    /\ last = [op |-> "construct", args |-> <<>>, ret |-> "None", save |-> "none",
               pre |-> <<>>, preFile |-> file, preCategories |-> DefaultCategories]

Next ==
    \/ Construct
    \/ \E c \in AddCalls, outcome \in Outcomes :
           AddExpense(c.amount, c.category, c.description, c.date, outcome)
    \/ \E expense_id \in RemoveIds, outcome \in Outcomes :
           RemoveExpense(expense_id, outcome)
    \/ Tick

Spec == Init /\ [][Next]_vars

\* the store with its queries called between the other calls, every write
\* of the backing file succeeding
NextQueries ==
    \/ Construct
    \/ \E c \in AddCalls : AddExpense(c.amount, c.category, c.description, c.date, "ok")
    \/ \E expense_id \in RemoveIds : RemoveExpense(expense_id, "ok")
    \/ Tick
    \/ ByCategory
    \/ ByDateRange
    \/ TotalByCategory
    \/ MonthlySummary

SpecQueries == Init /\ [][NextQueries]_vars

(***************************************************************************)
(* Two stores of one process on the same backing file, as in               *)
(* test_data_persistence: each was constructed on the file, and the calls  *)
(* go to one or the other.                                                 *)
(***************************************************************************)
\* the backing file the two stores are constructed on: none yet, or one
\* Record of an earlier process
TwoStoreFiles == {Absent, JsonArray(<<GoodItem>>)}

InitTwoStores ==
    /\ file \in TwoStoreFiles
    /\ now = 0
    /\ hashOf \in [HashedStrings -> HashValues]
    /\ expenses = LoadExpenses(file, now)
    /\ categories = DefaultCategories
    /\ failures = 0
    /\ peer = [expenses |-> LoadExpenses(file, now), categories |-> DefaultCategories,
               failures |-> 0]
    /\ last = [op |-> "construct", args |-> <<>>, ret |-> "None", save |-> "none",
               pre |-> <<>>, preFile |-> file, preCategories |-> DefaultCategories]

\* the next calls go to the other store
SwitchStore ==
    /\ expenses' = peer.expenses
    /\ categories' = peer.categories
    /\ failures' = peer.failures
    /\ peer' = [expenses |-> expenses, categories |-> categories, failures |-> failures]
    /\ last' = [op |-> "switch", args |-> <<>>, ret |-> "None", save |-> "none",
                pre |-> peer.expenses, preFile |-> file, preCategories |-> peer.categories]
    /\ UNCHANGED <<file, now, hashOf>>

\* the calls of add_expense made on the two stores
TwoStoreCalls ==
    { AddCall(50, "food", <<"a">>, May31),
      AddCall(123, "toys", <<SP, "a", SP>>, June15) }

NextTwoStores ==
    \/ \E c \in TwoStoreCalls : AddExpense(c.amount, c.category, c.description, c.date, "ok")
    \/ \E expense_id \in RemoveIds : RemoveExpense(expense_id, "ok")
    \/ Tick
    \/ SwitchStore

SpecTwoStores == InitTwoStores /\ [][NextTwoStores]_vars

(***************************************************************************)
(* The claims. `last` is the most recent call on the store; no action      *)
(* other than a call changes the store or the file, so between two calls   *)
(* the state is the one the call left.                                     *)
(***************************************************************************)
LastAdd == last.op = "add"
LastRemove == last.op = "remove"
ArgAmount == last.args[1]
ArgCategory == last.args[2]
ArgDescription == last.args[3]
ArgDate == last.args[4]
ArgId == last.args[1]
ValidAdd == LastAdd /\ ArgAmount > 0 /\ Strip(ArgDescription) # <<>>
Newest == expenses[Len(expenses)]
AppendedOne ==
    /\ Len(expenses) = Len(last.pre) + 1
    /\ SubSeq(expenses, 1, Len(last.pre)) = last.pre
Carries(exps, id) == \E i \in 1..Len(exps) : exps[i].id = id

\* C1 as stated: a valid add_expense returns True and appends exactly one
\* Record, the last of the collection and the only new one, whose amount,
\* category, description and date are exactly the values passed.
C1_AddKeepsArgumentsExactly ==
    ValidAdd =>
        /\ last.ret = "True"
        /\ AppendedOne
        /\ Newest.amount = ArgAmount
        /\ Newest.category = ArgCategory
        /\ Newest.description = ArgDescription
        /\ (ArgDate # NoDate => Newest.date = ArgDate)

\* C1 amended: a valid add_expense returns True and appends exactly one
\* Record, the last of the collection and the only new one, whose amount,
\* category and date are exactly the values passed and whose description is
\* the passed description with leading and trailing whitespace stripped.
C1_AddKeepsArgumentsStripped ==
    ValidAdd =>
        /\ last.ret = "True"
        /\ AppendedOne
        /\ Newest.amount = ArgAmount
        /\ Newest.category = ArgCategory
        /\ Newest.description = Strip(ArgDescription)
        /\ (ArgDate # NoDate => Newest.date = ArgDate)

\* C1's case: a valid add with a padded description, on a store that held a record
C1_Witness ==
    /\ ValidAdd
    /\ ArgDescription # Strip(ArgDescription)
    /\ ArgDate # NoDate
    /\ Len(last.pre) >= 1
    /\ Len(expenses) = Len(last.pre) + 1

\* C2: add_expense with amount <= 0, or with a description that is empty
\* or whitespace only, raises the validation error to the caller and
\* leaves the in-memory collection as it was.
C2_InvalidAddRaises ==
    (LastAdd /\ (ArgAmount <= 0 \/ Strip(ArgDescription) = <<>>)) =>
        /\ last.ret = "ValueError"
        /\ expenses = last.pre

\* C2's case: a rejected add on a store that holds records
C2_Witness ==
    /\ LastAdd
    /\ ArgAmount = 0
    /\ last.ret = "ValueError"
    /\ Len(last.pre) >= 1

\* C3: in every reachable state the Records of the collection have
\* pairwise distinct ids.
C3_IdsDistinct ==
    \A i, j \in 1..Len(expenses) : i # j => expenses[i].id # expenses[j].id

\* the index of the first record of exps carrying id
FirstWith(exps, id) == CHOOSE i \in 1..Len(exps) :
    exps[i].id = id /\ \A j \in 1..(i - 1) : exps[j].id # id
Without(exps, i) == SubSeq(exps, 1, i - 1) \o SubSeq(exps, i + 1, Len(exps))

\* C4: remove_expense(id), for an id some Record carries, returns True,
\* makes the collection one shorter, removes only the first Record with
\* that id and leaves every other Record in its place.
C4_RemoveExistingRemovesOne ==
    (LastRemove /\ Carries(last.pre, ArgId)) =>
        /\ last.ret = "True"
        /\ Len(expenses) = Len(last.pre) - 1
        /\ expenses = Without(last.pre, FirstWith(last.pre, ArgId))

\* C5: remove_expense(id), for an id no Record carries, returns False
\* without raising, leaves the collection as it was and does not write the
\* backing file.
C5_RemoveMissingIsNoOp ==
    (LastRemove /\ ~Carries(last.pre, ArgId)) =>
        /\ last.ret = "False"
        /\ expenses = last.pre
        /\ file = last.preFile

\* C5's case: a remove that found nothing, on a store holding records whose
\* file is not what a save would write
C5_Witness ==
    /\ LastRemove
    /\ ~Carries(last.pre, ArgId)
    /\ Len(expenses) >= 1
    /\ file # Serialize(expenses)

\* C6: on a store whose saves all succeeded, a new store constructed on
\* the same backing file holds the same collection: same length, same
\* order, and at each position the same amount, category, description,
\* date and id.
C6_ReloadReproduces ==
    failures = 0 =>
        LET reloaded == LoadExpenses(file, now)
        IN  /\ Len(reloaded) = Len(expenses)
            /\ \A i \in 1..Len(expenses) :
                /\ reloaded[i].amount = expenses[i].amount
                /\ reloaded[i].category = expenses[i].category
                /\ reloaded[i].description = expenses[i].description
                /\ reloaded[i].date = expenses[i].date
                /\ reloaded[i].id = expenses[i].id

\* C6's case: adds and a remove of this store were saved, and two records
\* of different dates are there to reload
C6_Witness ==
    /\ failures = 0
    /\ LastRemove
    /\ last.save = "ok"
    /\ Len(expenses) >= 1
    /\ file.kind = "array"
    /\ \E i \in 1..Len(last.pre) : last.pre[i].date # expenses[1].date

Mutated == last.op \in {"add", "remove"} /\ last.ret = "True"
SaveFailed == last.save \in {"open_failed", "write_failed"}

\* C7 as stated: after every add_expense or remove_expense that returned
\* True the backing file holds exactly the serialization of the in-memory
\* collection.
C7_FileFollowsEveryMutation ==
    Mutated => file = Serialize(expenses)

\* C7 amended: after every add_expense or remove_expense that returned
\* True and whose write of the backing file succeeded, the file holds
\* exactly the serialization of the in-memory collection, in the same
\* order.
C7_FileFollowsSavedMutation ==
    (Mutated /\ last.save = "ok") => file = Serialize(expenses)

\* C7's case: a saved add on a store that held a record
C7_Witness ==
    /\ LastAdd
    /\ last.ret = "True"
    /\ last.save = "ok"
    /\ Len(expenses) >= 2

\* C8: when the write of the backing file fails during add_expense or
\* remove_expense, the call still returns True, the mutation stays in
\* memory, and the next mutating call whose save succeeds makes the file
\* the serialization of the whole collection, the Records whose save
\* failed included.
C8_FailedSaveKeepsMutation ==
    /\ (LastAdd /\ SaveFailed) => (last.ret = "True" /\ AppendedOne)
    /\ (LastRemove /\ SaveFailed) =>
          /\ last.ret = "True"
          /\ expenses = SelectSeq(last.pre, LAMBDA e : e.id # ArgId)
          /\ Len(expenses) < Len(last.pre)
    /\ (Mutated /\ last.save = "ok" /\ failures > 0) =>
          /\ file = Serialize(expenses)
          /\ \A i \in 1..Len(last.pre) :
                (LastAdd \/ last.pre[i].id # ArgId) =>
                    \E j \in 1..Len(file.items) :
                        file.items[j] = JsonDumpObject(ToDict(last.pre[i]))

\* C8's case: an add whose save succeeds, after an add whose save failed
\* left its record missing from the file
C8_Witness ==
    /\ LastAdd
    /\ last.save = "ok"
    /\ failures > 0
    /\ Len(last.pre) >= 1
    /\ last.preFile # Serialize(last.pre)
    /\ file = Serialize(expenses)

\* C9: constructing a store never raises; on a missing file the collection
\* is empty; on a file that is unreadable, not JSON, or holds any element
\* that fails to deserialize it is empty, the well-formed elements
\* dropped too; otherwise it is the deserialized elements in file order.
Deserialized(i) == FromDict(JsonLoadObject(file.items[i]), now)
C9_ConstructLoadsAllOrNothing ==
    last.op = "construct" =>
        /\ last.ret = "None"
        /\ file.kind \in {"absent", "unreadable", "malformed"} => expenses = <<>>
        /\ file.kind = "array" =>
              IF \E i \in 1..Len(file.items) : IsExc(Deserialized(i))
              THEN expenses = <<>>
              ELSE /\ Len(expenses) = Len(file.items)
                   /\ \A i \in 1..Len(file.items) : expenses[i] = Deserialized(i)

\* C9's case: a store constructed on an array whose first element is well
\* formed and whose second is not
C9_Witness ==
    /\ last.op = "construct"
    /\ file.kind = "array"
    /\ Len(file.items) = 2
    /\ ~IsExc(Deserialized(1))
    /\ IsExc(Deserialized(2))
    /\ expenses = <<>>

\* C10: no Record comes of an amount <= 0 or of a description that is
\* empty after trimming: building it raises a validation error, whether
\* the Record is built directly, deserialized from the backing file, or
\* added through the store.
InvalidFields(amount, description) == amount <= 0 \/ Strip(description) = <<>>
C10_InvalidRecordNeverBuilt ==
    /\ \A c \in AddCalls :
          InvalidFields(c.amount, c.description) =>
              IsExc(NewExpense(c.amount, c.category, c.description, c.date, NoId, now))
    /\ \A i \in 1..Len(file.items) :
          LET o == JsonLoadObject(file.items[i])
          IN  InvalidFields(o.amount, o.description) => IsExc(FromDict(o, now))
    /\ \A i \in 1..Len(expenses) :
          ~InvalidFields(expenses[i].amount, expenses[i].description)

(***************************************************************************)
(* The claims about the queries, under SpecQueries. What a claim says of   *)
(* sums and ranges is written over sets of positions of the collection.    *)
(***************************************************************************)
Positions == 1..Len(expenses)

\* the sum of the amounts at the positions S
RECURSIVE SumAt(_)
SumAt(S) ==
    IF S = {} THEN 0
    ELSE LET i == CHOOSE i \in S : TRUE IN expenses[i].amount + SumAt(S \ {i})

\* the records at the positions S, in the order of the collection
RECURSIVE InOrder(_)
InOrder(S) ==
    IF S = {} THEN <<>>
    ELSE LET i == CHOOSE i \in S : \A j \in S : j <= i
         IN  Append(InOrder(S \ {i}), expenses[i])

InMonth(year, month) ==
    {i \in Positions : expenses[i].date.year = year /\ expenses[i].date.month = month}
OfCategory(S, category) == {i \in S : expenses[i].category = category}
CategoriesAt(S) == {expenses[i].category : i \in S}
LastMonthly == last.op = "monthly_summary"
AskedMonth == InMonth(last.args[1], last.args[2])
ZeroSummary ==
    [total_amount |-> 0, expense_count |-> 0, average_amount |-> 0, categories |-> EmptyDict]

\* what C11 and its amendment share: the count, the categories and the
\* summary of a month without records
SummaryCountsAndCategories ==
    /\ last.ret.expense_count = Cardinality(AskedMonth)
    /\ DOMAIN last.ret.categories = CategoriesAt(AskedMonth)
    /\ \A c \in CategoriesAt(AskedMonth) :
          last.ret.categories[c] = SumAt(OfCategory(AskedMonth, c))
    /\ AskedMonth = {} => last.ret = ZeroSummary

\* C11 as stated: calculate_monthly_summary(year, month) returns the number
\* of Records of that month, total_amount equal to the sum of their
\* amounts, the subset's amounts per category for exactly its categories
\* (the subtotals adding up to total_amount), and the all-zero summary
\* when no Record matches; other months never contribute.
C11_SummaryTotalIsSum ==
    LastMonthly =>
        /\ SummaryCountsAndCategories
        /\ last.ret.total_amount = SumAt(AskedMonth)
        /\ last.ret.total_amount =
              SumAt(UNION {OfCategory(AskedMonth, c) : c \in DOMAIN last.ret.categories})

\* C11 amended: as stated, but total_amount is the sum of the month's
\* amounts rounded to two decimals, and the category subtotals, which are
\* not rounded, add up to the unrounded sum.
C11_SummaryTotalIsRoundedSum ==
    LastMonthly =>
        /\ SummaryCountsAndCategories
        /\ last.ret.total_amount = Round2(SumAt(AskedMonth), 1)
        /\ SumAt(AskedMonth) =
              SumAt(UNION {OfCategory(AskedMonth, c) : c \in DOMAIN last.ret.categories})

\* C11's case: a summary of a month with a Record, another month's Record
\* in the store, and a sum that two decimals do not hold
C11_Witness ==
    /\ LastMonthly
    /\ AskedMonth # {}
    /\ AskedMonth # Positions
    /\ last.ret.total_amount # SumAt(AskedMonth)

\* C12: calculate_total_by_category returns a mapping whose keys are
\* exactly the categories some Record of the collection carries, each with
\* the sum of the amounts of its Records; a category that is only known
\* (built in, or registered by an add whose Record was removed) is absent.
C12_TotalsOfPresentCategories ==
    last.op = "total_by_category" =>
        /\ DOMAIN last.ret = CategoriesAt(Positions)
        /\ \A c \in CategoriesAt(Positions) : last.ret[c] = SumAt(OfCategory(Positions, c))
        /\ \A c \in categories \ CategoriesAt(Positions) : c \notin DOMAIN last.ret

\* C12's case: totals of a store that holds Records, "toys" registered by
\* an add and its Record gone
C12_Witness ==
    /\ last.op = "total_by_category"
    /\ Len(expenses) >= 1
    /\ "toys" \in categories
    /\ "toys" \notin CategoriesAt(Positions)
    /\ DOMAIN last.ret = {"food"}

\* the day count a date is ordered by
Ordinal(d) == (d.year * 12 + d.month) * 31 + d.day
InRange(start_date, end_date) ==
    {i \in Positions :
        Ordinal(start_date) <= Ordinal(expenses[i].date)
        /\ Ordinal(expenses[i].date) <= Ordinal(end_date)}

\* C13: get_expenses_by_date_range(start, end) returns exactly the Records
\* with start <= date <= end, those dated start or end included, in
\* insertion order; it is empty when start > end.
C13_RangeIsInclusive ==
    last.op = "by_date_range" =>
        /\ last.ret = InOrder(InRange(last.args[1], last.args[2]))
        /\ Ordinal(last.args[1]) > Ordinal(last.args[2]) => last.ret = <<>>

\* C13's case: a range whose end is the date of a Record it returns, with a
\* Record before its start left out
C13_Witness ==
    /\ last.op = "by_date_range"
    /\ Len(last.ret) = 1
    /\ last.ret[1].date = last.args[2]
    /\ last.args[1] # last.args[2]
    /\ \E i \in Positions : Ordinal(expenses[i].date) < Ordinal(last.args[1])

QueryOps == {"by_category", "by_date_range", "total_by_category", "monthly_summary"}

\* C14: the four queries leave the in-memory collection, the known-category
\* set and the backing file as they were.
C14_QueriesChangeNothing ==
    last.op \in QueryOps =>
        /\ expenses = last.pre
        /\ categories = last.preCategories
        /\ file = last.preFile

\* C14's case: get_expenses_by_category of a category that is not known, on
\* a store that holds Records and has a backing file
C14_Witness ==
    /\ last.op = "by_category"
    /\ last.args[1] \notin categories
    /\ Len(expenses) >= 1
    /\ file.kind = "array"

(***************************************************************************)
(* The claim about two stores, under SpecTwoStores.                        *)
(***************************************************************************)
Holds(exps, r) == \E i \in 1..Len(exps) : exps[i] = r
InFile(f, r) == \E j \in 1..Len(f.items) : f.items[j] = JsonDumpObject(ToDict(r))
PeerRecords == {peer.expenses[i] : i \in 1..Len(peer.expenses)}
\* the Records the other store holds that the called store neither held
\* before the call nor built in it
OnlyOfPeer ==
    {r \in PeerRecords : ~Holds(last.pre, r) /\ (LastAdd => r # Newest)}

\* C15: a store writes the whole file from its own in-memory collection,
\* without reading the file again: after each of its saved mutations the
\* file is the serialization of its collection and holds no Record that
\* only the other store holds, so a Record the other store added and saved
\* is lost from the file.
C15_LastWriterOverwrites ==
    (Mutated /\ last.save = "ok") =>
        /\ file = Serialize(expenses)
        /\ \A r \in OnlyOfPeer : ~InFile(file, r)

\* C15's case, the lost update: the other store, all of whose writes
\* succeeded, holds a Record it added (its id is of this process), the file
\* held it before the call and does not hold it after
C15_Witness ==
    /\ Mutated
    /\ last.save = "ok"
    /\ peer.failures = 0
    /\ \E r \in PeerRecords :
          /\ r.id[1] >= 0
          /\ InFile(last.preFile, r)
          /\ ~InFile(file, r)

====
